---------------------------- MODULE Spec2Model ----------------------------
(***************************************************************************)
(* Model of the jdate crate (src/src/lib.rs): the molad computation, the   *)
(* four postponement rules, the year-length / month table, the validating  *)
(* constructor JDate::new, and the conversions JDate::from_jd / to_jd and  *)
(* month_name / Display.                                                   *)
(*                                                                         *)
(* Every function of the crate is pure; the state machine holds one input  *)
(* (drawn in Init), and each action is one call of the crate's API on the  *)
(* value the previous call produced.                                       *)
(*                                                                         *)
(* Integer conventions.  Rust's `%` and `/` on i32 truncate toward zero;   *)
(* they are modelled by rem and quot below.  div_euclid / rem_euclid with  *)
(* a positive divisor are TLA+'s \div and %.  molad() is an i64 that       *)
(* exceeds 32 bits (5.4e10 chalakim for year 5785) while TLC's integers    *)
(* are 32 bits wide, so an i64 chalakim count c is held as the pair        *)
(*    [day |-> c div_euclid 25920, parts |-> c rem_euclid 25920]           *)
(* (25920 = 1080*24 chalakim per day); i64_add and i64_mul are exact on    *)
(* that representation.  No i32 or i64 value overflows inside the bounds.  *)
(***************************************************************************)
EXTENDS Integers, Sequences, FiniteSets

VARIABLES
    input,   \* the argument the caller supplied: a year, a Julian day, or (y, m, d)
    op,      \* the call that returned last ("init" before any call, "panic" after unreachable!())
    jdate,   \* Option<JDate>: the JDate the caller holds
    jdn,     \* the Julian day number the caller holds
    ret,     \* the value returned by the last year-level function
    text     \* the last string produced by Display

vars == <<input, op, jdate, jdn, ret, text>>

-----------------------------------------------------------------------------
(* Bounds of the checked range *)

\* Hebrew years 1..MaxYear are given to the year-level functions
MaxYear == 6000
\* ... and the years -NegYears..0 before the epoch
NegYears == 400
\* each window of the day-level checks spans this many Hebrew years
WindowYears == 8
\* JDate::new is called with months 0..MaxMonthArg and 255
MaxMonthArg == 15
\* JDate::new is called with days 0..MaxDayArg and 255
MaxDayArg == 32

\* first years of the windows: the epoch, 1 CE (test_from_greg), and the
\* years around 5784/5785 used by the tests
WindowStarts == {1, 3761, 5780}

\* largest u8
U8Max == 255

-----------------------------------------------------------------------------
(* Rust integer arithmetic *)

\* i32 `a % b` (b > 0): remainder truncating toward zero, sign of a
rem(a, b) == IF a >= 0 THEN a % b ELSE -((-a) % b)

\* i32 `a / b` (b > 0): quotient truncating toward zero
quot(a, b) == IF a >= 0 THEN a \div b ELSE -((-a) \div b)

\* `x as u8` for an integer x
as_u8(x) == x % (U8Max + 1)

\* an i64 chalakim count n (small enough for TLC) as [day, parts]
i64(n) == [day |-> n \div (1080*24), parts |-> n % (1080*24)]

\* i64 addition
i64_add(a, b) ==
    LET p == a.parts + b.parts
    IN  [day |-> a.day + b.day + p \div (1080*24), parts |-> p % (1080*24)]

\* i64 product of an i32 k (widened) and an i64 a
i64_mul(k, a) ==
    LET p == k * a.parts
    IN  [day |-> k * a.day + p \div (1080*24), parts |-> p % (1080*24)]

-----------------------------------------------------------------------------
(* lib.rs *)

\* Option<JDate>
None == [some |-> FALSE]
Some(y, m, d) == [some |-> TRUE, year |-> y, month |-> m, day |-> d]

is_leap_year(year) == rem(year, 19) \in {0, 3, 6, 8, 11, 14, 17}

parts_month == (29*24+12)*1080+793
parts_year == 12 * parts_month
parts_lyear == 13 * parts_month
parts_cycle == 12 * parts_year + 7 * parts_lyear

\* the loop `for year in 0..year_in_cycle` of molad, from iteration `year` on
RECURSIVE molad_loop(_, _, _)
molad_loop(year, year_in_cycle, molad_acc) ==
    IF year >= year_in_cycle THEN molad_acc
    ELSE molad_loop(year + 1, year_in_cycle,
                    IF is_leap_year(year + 1)
                    THEN i64_add(molad_acc, i64(parts_lyear))
                    ELSE i64_add(molad_acc, i64(parts_year)))

\* faulty variant of molad: splits year instead of year - 1 into cycles and years
molad_year_not_shifted(year) ==
    LET total_cycles == year \div 19
        year_in_cycle == year % 19
        tohu == i64((24+5)*1080+204)
    IN  molad_loop(0, year_in_cycle,
                   i64_add(tohu, i64_mul(total_cycles, i64(parts_cycle))))

molad(year) ==
    LET total_cycles == (year - 1) \div 19
        year_in_cycle == (year - 1) % 19
        tohu == i64((24+5)*1080+204)
    IN  molad_loop(0, year_in_cycle,
                   i64_add(tohu, i64_mul(total_cycles, i64(parts_cycle))))

\* (day, hour, parts); with c = day*25920 + parts, 0 <= parts < 25920:
\* c.div_euclid(1080).rem_euclid(24) = parts div 1080, c.rem_euclid(1080) = parts mod 1080
molad_components(year) ==
    LET m == molad(year)
    IN  <<m.day, as_u8((m.parts \div 1080) % 24), m.parts % 1080>>

\* first rule: a molad at or after noon (18 hours after 6pm) postpones by a day
noon_rule(day, parts) == IF parts >= 18*1080 THEN day + 1 ELSE day

\* second rule: lo ADU
lo_adu(rosh) ==
    IF rem(rosh, 7) = 0 \/ rem(rosh, 7) = 3 \/ rem(rosh, 7) = 5
    THEN rosh + 1 ELSE rosh

\* faulty variant of gatarad: tests the weekday of the molad against 3 instead of 2
gatarad_wrong_weekday(year, day, parts, rosh) ==
    IF ~is_leap_year(year) /\ rem(day, 7) = 3 /\ parts >= 9*1080+204
    THEN day + 2 ELSE rosh

\* third rule: Ga-Ta-RaD
gatarad(year, day, parts, rosh) ==
    IF ~is_leap_year(year) /\ rem(day, 7) = 2 /\ parts >= 9*1080+204
    THEN day + 2 ELSE rosh

\* fourth rule: Be-TU-TeKaPoT
betutekapot(year, day, parts, rosh) ==
    IF is_leap_year(year - 1) /\ rem(day, 7) = 1 /\ parts >= 15*1080+589
    THEN day + 1 ELSE rosh

\* the four rules in the order of the source, on the molad m of the year:
\* day = m.div_euclid(1080*24), parts = m.rem_euclid(1080*24)
rosh_hashana(year, m) ==
    betutekapot(year, m.day, m.parts,
        gatarad(year, m.day, m.parts,
            lo_adu(noon_rule(m.day, m.parts))))

year_start(year) == rosh_hashana(year, molad(year))

year_length(year) ==
    LET rosh1 == year_start(year)
        rosh2 == year_start(year + 1)
    IN  rosh2 - rosh1

\* the initial days_in_month: [u8; 14], indexed 0..13 as in the source
days_in_month_init ==
    [i \in 0..13 |-> IF i = 0 \/ i = 13 THEN 0 ELSE IF i % 2 = 1 THEN 30 ELSE 29]

\* `if is_leap_year(year) {...}`
set_leap(days_in_month, year) ==
    IF is_leap_year(year)
    THEN [days_in_month EXCEPT ![12] = 30, ![13] = 29] ELSE days_in_month

\* faulty variant of set_deficient: shortens Cheshvan (8) instead of Kislev (9)
set_deficient_cheshvan(days_in_month, length) ==
    IF rem(length, 10) = 3 THEN [days_in_month EXCEPT ![8] = 29] ELSE days_in_month

\* deficient year
set_deficient(days_in_month, length) ==
    IF rem(length, 10) = 3 THEN [days_in_month EXCEPT ![9] = 29] ELSE days_in_month

\* complete year
set_complete(days_in_month, length) ==
    IF rem(length, 10) = 5 THEN [days_in_month EXCEPT ![8] = 30] ELSE days_in_month

month_table(year, length) ==
    set_complete(set_deficient(set_leap(days_in_month_init, year), length), length)

year_months(year) == month_table(year, year_length(year))

\* faulty variant of date_is_valid: day 30 of Kislev only in a complete year (> 4)
date_is_valid_kislev(year, month, day) ==
    IF month < 1 \/ month > 13 \/ day < 1 \/ day > 30 THEN FALSE
    ELSE IF month = 13 THEN day <= 29 /\ is_leap_year(year)
    ELSE IF day = 30 THEN
        CASE month \in {1, 3, 5, 7, 11} -> TRUE
          [] month \in {2, 4, 6, 10} -> FALSE
          [] month = 12 -> is_leap_year(year)
          [] month = 8 -> rem(year_length(year), 10) = 5
          [] month = 9 -> rem(year_length(year), 10) > 4
    ELSE TRUE

date_is_valid(year, month, day) ==
    IF month < 1 \/ month > 13 \/ day < 1 \/ day > 30 THEN FALSE
    ELSE IF month = 13 THEN day <= 29 /\ is_leap_year(year)
    ELSE IF day = 30 THEN
        CASE month \in {1, 3, 5, 7, 11} -> TRUE
          [] month \in {2, 4, 6, 10} -> FALSE
          [] month = 12 -> is_leap_year(year)
          [] month = 8 -> rem(year_length(year), 10) = 5
          [] month = 9 -> rem(year_length(year), 10) >= 4
    ELSE TRUE

JDate_new(year, month, day) ==
    IF ~date_is_valid(year, month, day) THEN None ELSE Some(year, month, day)

\* `while year_start(year) < ed {year += 1;}`
RECURSIVE year_up(_, _)
year_up(year, ed) ==
    IF year_start(year) < ed THEN year_up(year + 1, ed) ELSE year

\* `while year_start(year) > ed {year -= 1;}`
RECURSIVE year_down(_, _)
year_down(year, ed) ==
    IF year_start(year) > ed THEN year_down(year - 1, ed) ELSE year

\* `month += 1; if month == 14 {month = 1}` of the loops of from_jd and to_jd
next_month(month) == IF month + 1 = 14 THEN 1 ELSE month + 1

\* faulty variant of from_jd_loop: leaves the loop on `days + length >= ed`
RECURSIVE from_jd_loop_inclusive(_, _, _, _)
from_jd_loop_inclusive(days_in_month, ed, month, days) ==
    IF days + days_in_month[month] >= ed
    THEN [panic |-> FALSE, month |-> month, days |-> days]
    ELSE IF next_month(month) = 7
    THEN [panic |-> TRUE, month |-> 7, days |-> days]
    ELSE from_jd_loop_inclusive(days_in_month, ed, next_month(month),
                                days + days_in_month[month])

\* the month loop of from_jd; panic = unreachable!() was reached
RECURSIVE from_jd_loop(_, _, _, _)
from_jd_loop(days_in_month, ed, month, days) ==
    IF days + days_in_month[month] > ed
    THEN [panic |-> FALSE, month |-> month, days |-> days]
    ELSE IF next_month(month) = 7
    THEN [panic |-> TRUE, month |-> 7, days |-> days]
    ELSE from_jd_loop(days_in_month, ed, next_month(month),
                      days + days_in_month[month])

\* faulty variant of from_jd_result: the day of the month counted from 0
from_jd_result_zero_based(ed, year, w) ==
    [panic |-> w.panic,
     date |-> Some(year, as_u8(w.month), as_u8(ed - w.days))]

\* the JDate from_jd returns, given what its month loop returned
from_jd_result(ed, year, w) ==
    [panic |-> w.panic,
     date |-> Some(year, as_u8(w.month), as_u8(ed - w.days + 1))]

\* from_jd once the year is found
from_jd_in_year(ed, year) ==
    from_jd_result(ed, year,
                   from_jd_loop(year_months(year), ed, 7, year_start(year)))

\* from_jd on the days since epoch
from_jd_ed(ed) ==
    from_jd_in_year(ed, year_down(year_up(quot(ed * 100, 36525), ed), ed))

from_jd(j) == from_jd_ed(j - 347997)

\* the loop of to_jd; panic = unreachable!() was reached
RECURSIVE to_jd_loop(_, _, _, _)
to_jd_loop(days_in_month, self, month, ed) ==
    IF month = self.month
    THEN [panic |-> FALSE, ed |-> ed + self.day]
    ELSE IF next_month(month) = 7
    THEN [panic |-> TRUE, ed |-> ed + days_in_month[month]]
    ELSE to_jd_loop(days_in_month, self, next_month(month),
                    ed + days_in_month[month])

\* the Julian day to_jd returns, given what its loop returned
to_jd_result(w) == [panic |-> w.panic, jd |-> w.ed + 347997]

\* faulty variant of to_jd: starts at year_start(year) instead of year_start(year) - 1
to_jd_from_year_start(self) ==
    to_jd_result(to_jd_loop(year_months(self.year), self, 7,
                            year_start(self.year)))

to_jd(self) ==
    to_jd_result(to_jd_loop(year_months(self.year), self, 7,
                            year_start(self.year) - 1))

\* faulty variant of NAMES: the names in the order of the civil year, Tishrei first
NAMES_tishrei_first ==
    <<"Tishrei", "Cheshvan", "Kislev", "Tevet", "Shvat", "Adar",
      "Nisan", "Iyar", "Sivan", "Tamuz", "Av", "Elul", "Adar2">>

NAMES == <<"Nisan", "Iyar", "Sivan", "Tamuz", "Av", "Elul",
           "Tishrei", "Cheshvan", "Kislev", "Tevet", "Shvat", "Adar", "Adar2">>

\* NAMES is a Rust array indexed from 0: NAMES[month - 1] is the month-th entry
month_name(self) ==
    IF self.month = 12 /\ is_leap_year(self.year) THEN "Adar1"
    ELSE NAMES[(self.month - 1) + 1]

\* one decimal digit
digit(n) == <<"0", "1", "2", "3", "4", "5", "6", "7", "8", "9">>[n + 1]

\* decimal digits of a non-negative integer
RECURSIVE digits(_)
digits(n) ==
    IF n < 10 THEN digit(n) ELSE digits(n \div 10) \o digit(n % 10)

\* Display of an integer
int_to_string(n) == IF n < 0 THEN "-" \o digits(-n) ELSE digits(n)

\* `{:0>width}`: fill with '0' on the left up to width characters
RECURSIVE pad0(_, _)
pad0(s, width) == IF Len(s) >= width THEN s ELSE pad0("0" \o s, width)

\* impl fmt::Display for JDate
fmt(self) ==
    pad0(int_to_string(self.year), 4) \o "-" \o month_name(self) \o "-"
        \o pad0(int_to_string(self.day), 2)

-----------------------------------------------------------------------------
(* The inputs of the checked range *)

YearArgs == (-NegYears)..MaxYear

WindowYearArgs == UNION {w..(w + WindowYears - 1) : w \in WindowStarts}

\* every Julian day of the years of the windows
JdArgs ==
    UNION {{ed + 347997 : ed \in year_start(w)..(year_start(w + WindowYears) - 1)}
           : w \in WindowStarts}

MonthArgs == (0..MaxMonthArg) \cup {U8Max}
DayArgs == (0..MaxDayArg) \cup {U8Max}

Inputs ==
    {[kind |-> "year", year |-> y] : y \in YearArgs}
    \cup {[kind |-> "jd", jd |-> j] : j \in JdArgs}
    \cup {[kind |-> "ymd", year |-> y, month |-> m, day |-> d] :
              y \in WindowYearArgs, m \in MonthArgs, d \in DayArgs}

-----------------------------------------------------------------------------
(* The state machine: one input, then calls of the API *)

Init ==
    /\ input \in Inputs
    /\ op = "init"
    /\ jdate = None
    /\ jdn = IF input.kind = "jd" THEN input.jd ELSE 0
    /\ ret = 0
    /\ text = ""

\* is_leap_year(year)
IsLeapYear ==
    /\ op = "init" /\ input.kind = "year"
    /\ ret' = is_leap_year(input.year)
    /\ op' = "is_leap_year"
    /\ UNCHANGED <<input, jdate, jdn, text>>

\* molad_components(year)
MoladComponents ==
    /\ op = "init" /\ input.kind = "year"
    /\ ret' = molad_components(input.year)
    /\ op' = "molad_components"
    /\ UNCHANGED <<input, jdate, jdn, text>>

\* year_start(year)
YearStart ==
    /\ op = "init" /\ input.kind = "year"
    /\ ret' = year_start(input.year)
    /\ op' = "year_start"
    /\ UNCHANGED <<input, jdate, jdn, text>>

\* year_length(year)
YearLength ==
    /\ op = "init" /\ input.kind = "year"
    /\ ret' = year_length(input.year)
    /\ op' = "year_length"
    /\ UNCHANGED <<input, jdate, jdn, text>>

\* year_months(year)
YearMonths ==
    /\ op = "init" /\ input.kind = "year"
    /\ ret' = year_months(input.year)
    /\ op' = "year_months"
    /\ UNCHANGED <<input, jdate, jdn, text>>

\* JDate::new(year, month, day)
New ==
    /\ op = "init" /\ input.kind = "ymd"
    /\ jdate' = JDate_new(input.year, input.month, input.day)
    /\ op' = "new"
    /\ UNCHANGED <<input, jdn, ret, text>>

\* JDate::from_jd(jd), on the input day or on the day to_jd returned
FromJd ==
    /\ <<op, input.kind>> \in {<<"init", "jd">>, <<"to_jd", "jd">>, <<"to_jd", "ymd">>}
    /\ op' = IF from_jd(jdn).panic THEN "panic" ELSE "from_jd"
    /\ jdate' = IF op' = "panic" THEN None ELSE from_jd(jdn).date
    /\ UNCHANGED <<input, jdn, ret, text>>

\* date.to_jd(), on the JDate that new or from_jd returned
ToJd ==
    /\ op \in {"new", "from_jd"} /\ jdate.some
    /\ op' = IF to_jd(jdate).panic THEN "panic" ELSE "to_jd"
    /\ jdn' = IF op' = "panic" THEN jdn ELSE to_jd(jdate).jd
    /\ UNCHANGED <<input, jdate, ret, text>>

\* format!("{}", date), on the JDate that new or from_jd returned
Display ==
    /\ op \in {"new", "from_jd"} /\ jdate.some
    /\ text' = fmt(jdate)
    /\ op' = "fmt"
    /\ UNCHANGED <<input, jdate, jdn, ret>>

Next ==
    \/ IsLeapYear
    \/ MoladComponents
    \/ YearStart
    \/ YearLength
    \/ YearMonths
    \/ New
    \/ FromJd
    \/ ToJd
    \/ Display

Spec == Init /\ [][Next]_vars

-----------------------------------------------------------------------------
(* Properties *)

\* the caller's input (y, m, d) as a JDate
InputDate == Some(input.year, input.month, input.day)

\* days_in_month[1] + ... + days_in_month[n]
RECURSIVE SumMonths(_, _)
SumMonths(days_in_month, n) ==
    IF n = 0 THEN 0 ELSE days_in_month[n] + SumMonths(days_in_month, n - 1)

\* the years with 13 months, by the mathematical (non-negative) year mod 19
MetonicLeap(y) == (y % 19) \in {0, 3, 6, 8, 11, 14, 17}

\* C1: for every Julian day of a Hebrew year >= 1 of the range, from_jd does
\* not reach unreachable!(), and to_jd of the date it returns is that day again.
C1_RoundTripDay ==
    input.kind = "jd" =>
        /\ op # "panic"
        /\ op = "to_jd" => jdn = input.jd

\* C1 witness: a day was converted to the last day of Adar2 and back
C1_Witness ==
    /\ input.kind = "jd" /\ op = "to_jd" /\ jdn = input.jd
    /\ jdate.month = 13 /\ jdate.day = 29

\* C2: JDate::new(y, m, d) is Some exactly when 1 <= m <= 13 and
\* 1 <= d <= year_months(y)[m]; the date it holds is (y, m, d) unchanged, and
\* month 13 is accepted only in a leap year.
C2_NewAgreesWithTable ==
    op = "new" =>
        /\ jdate.some <=>
              /\ 1 <= input.month /\ input.month <= 13
              /\ 1 <= input.day
              /\ input.day <= year_months(input.year)[input.month]
        /\ jdate.some => jdate = InputDate
        /\ (jdate.some /\ input.month = 13) => is_leap_year(input.year)

\* C2 witness: day 30 of Kislev was refused (a deficient year) by new
C2_Witness ==
    /\ op = "new" /\ input.month = 9 /\ input.day = 30 /\ ~jdate.some

\* C3: for a year y >= 1, year_length(y) is one of 353, 354, 355, 383, 384,
\* 385, it is one of 383, 384, 385 exactly when y is a leap year, and
\* year_start(y) < year_start(y + 1).
C3_YearLengthSet ==
    (op = "year_length" /\ input.year >= 1) =>
        /\ ret \in {353, 354, 355, 383, 384, 385}
        /\ ret \in {383, 384, 385} <=> is_leap_year(input.year)
        /\ year_start(input.year) < year_start(input.year + 1)

\* C3 witness: a regular leap year (384 days)
C3_Witness == op = "year_length" /\ input.year >= 1 /\ ret = 384

\* C4: for every integer year y, is_leap_year(y) is true exactly when the
\* non-negative y mod 19 is one of 0, 3, 6, 8, 11, 14, 17, and exactly 7 of
\* the 19 years y .. y+18 are leap years.
C4_LeapCycle ==
    op = "is_leap_year" =>
        /\ ret <=> MetonicLeap(input.year)
        /\ Cardinality({k \in 0..18 : is_leap_year(input.year + k)}) = 7

\* C5: molad_components(1) = (1, 5, 204), molad_components(5785) =
\* (2112590, 9, 391), and for every year day*25920 + hour*1080 + part is
\* molad(year) with 0 <= hour < 24 and 0 <= part < 1080.
C5_MoladLiterals ==
    op = "molad_components" =>
        /\ input.year = 1 => ret = <<1, 5, 204>>
        /\ input.year = 5785 => ret = <<2112590, 9, 391>>
        /\ 0 <= ret[2] /\ ret[2] < 24
        /\ 0 <= ret[3] /\ ret[3] < 1080
        /\ [day |-> ret[1], parts |-> ret[2] * 1080 + ret[3]] = molad(input.year)

\* C5 witness: the components of the molad of 5785
C5_Witness ==
    op = "molad_components" /\ input.year = 5785 /\ ret = <<2112590, 9, 391>>

\* C6 as claimed: Julian day 2460676 (2024-12-31) is year 5785, month name
\* "Cheshvan", day 30, displayed as 5785-Cheshvan-30.
C6_Cheshvan ==
    (op = "fmt" /\ input.kind = "jd" /\ input.jd = 2460676) =>
        /\ jdate.year = 5785 /\ jdate.day = 30
        /\ month_name(jdate) = "Cheshvan"
        /\ text = "5785-Cheshvan-30"

\* C6 as amended: Julian day 2460676 (2024-12-31, epoch day 2112679) is year
\* 5785, month 9 whose month name is "Kislev", day 30, displayed as
\* 5785-Kislev-30.
C6_Kislev ==
    (op = "fmt" /\ input.kind = "jd" /\ input.jd = 2460676) =>
        /\ input.jd - 347997 = 2112679
        /\ jdate = Some(5785, 9, 30)
        /\ month_name(jdate) = "Kislev"
        /\ text = "5785-Kislev-30"

\* C6 witness: 2024-12-31 was converted and displayed
C6_Witness ==
    /\ op = "fmt" /\ input.kind = "jd" /\ input.jd = 2460676
    /\ text = "5785-Kislev-30"

\* C7: for every year, also y <= 0, the day year_start returns is never a
\* Sunday, Wednesday or Friday: mathematically mod 7 it is not 0, 3 or 5.
C7_LoAdu ==
    op = "year_start" => (ret % 7) \notin {0, 3, 5}

\* C8: for a year y >= 1 the month table sums to year_length(y), slot 13 is
\* 29 in a leap year and 0 otherwise, Cheshvan and Kislev have 29 or 30
\* days, and the month walk of from_jd does not wrap back to month 7 on the
\* first or the last day of the year.
C8_TableSumsToLength ==
    (op = "year_months" /\ input.year >= 1) =>
        /\ SumMonths(ret, 13) = year_length(input.year)
        /\ ret[13] = IF is_leap_year(input.year) THEN 29 ELSE 0
        /\ ret[8] \in {29, 30}
        /\ ret[9] \in {29, 30}
        /\ \A ed \in {year_start(input.year), year_start(input.year + 1) - 1} :
              ~from_jd_loop(ret, ed, 7, year_start(input.year)).panic

\* C8 witness: the table of a complete leap year
C8_Witness ==
    /\ op = "year_months" /\ input.year >= 1
    /\ ret[13] = 29 /\ ret[8] = 30 /\ ret[9] = 30

\* C9: for every (y, m, d), y >= 1, that JDate::new accepts, from_jd of the
\* date's to_jd is the date again, and neither conversion reaches
\* unreachable!().
C9_RoundTripDate ==
    input.kind = "ymd" =>
        /\ op # "panic"
        /\ op = "from_jd" => jdate = InputDate

\* C9 witness: day 30 of Cheshvan (a complete year) went to a day and back
C9_Witness ==
    /\ input.kind = "ymd" /\ op = "from_jd" /\ jdate = InputDate
    /\ jdate.month = 8 /\ jdate.day = 30

\* C10: the date (y, m, d) that from_jd returns for a day of a year >= 1 is
\* valid: date_is_valid(y, m, d), year_start(y) <= jd - 347997 <
\* year_start(y + 1), 1 <= d <= year_months(y)[m], and d is the day computed
\* before the cast to u8.
C10_FromJdValid ==
    (input.kind = "jd" /\ op \in {"from_jd", "panic"}) =>
        /\ op = "from_jd"
        /\ date_is_valid(jdate.year, jdate.month, jdate.day)
        /\ year_start(jdate.year) <= input.jd - 347997
        /\ input.jd - 347997 < year_start(jdate.year + 1)
        /\ 1 <= jdate.day
        /\ jdate.day <= year_months(jdate.year)[jdate.month]
        /\ jdate.day = (input.jd - 347997)
                        - from_jd_loop(year_months(jdate.year), input.jd - 347997,
                                       7, year_start(jdate.year)).days + 1

\* C10 witness: from_jd returned the last day of a year (29 Elul)
C10_Witness ==
    /\ input.kind = "jd" /\ op = "from_jd"
    /\ jdate.month = 6 /\ jdate.day = 29
    /\ input.jd - 347997 = year_start(jdate.year + 1) - 1

=============================================================================
